---- MODULE Spec2Model ----
(***************************************************************************)
(* Model of optflow.py: workers sharing one directory claim frame-pair     *)
(* jobs by exclusive creation of a placeholder file, and run one pipeline  *)
(* thread per claimed job under a cap on concurrently recorded threads.    *)
(*                                                                         *)
(* Files are modelled by existence.  A thread is identified by the job     *)
(* index it was started for.  External tools (DeepMatching/DeepFlow2, the  *)
(* consistency checker, the filesystem) are the environment: their         *)
(* outcome is a nondeterministic input of the step that calls them.        *)
(* threading.Thread.isAlive is taken as the liveness test of the thread    *)
(* (the interpreter the module was written for provides it).               *)
(***************************************************************************)
EXTENDS Integers, Sequences, FiniteSets, TLC

\* ---- bounds of the model ----
NumWorkers == 2
MaxFrames == 3
MaxStart == 1

MaxCap == 2
\* largest width and height of a flow field, longest file found at the destination
MaxDim == 2
MaxOldLen == 12

Workers == 1..NumWorkers
Starts == 0..MaxStart
\* the largest index range(start, start + len(frames) - 1) can give, plus one
MaxJob == IF MaxStart + MaxFrames - 1 >= 1 THEN MaxStart + MaxFrames - 1 ELSE 1
Jobs == 1..MaxJob
Frames == 1..(MaxJob + 1)

VARIABLES
    MAX_OPTFLOW_JOBS,  \* the cap imported from sconst, a positive number
    start,      \* optflow's argument start
    nframes,    \* len(frames), optflow's argument frames
    fast,       \* optflow's argument fast
    disk,       \* frame files present in the shared directory
    plc,        \* job indices whose placeholder file exists
    fwd,        \* job indices whose forward_{i}_{i+1}.flo exists
    bwd,        \* job indices whose backward_{i+1}_{i}.flo exists
    rel,        \* job indices whose reliable_{i+1}_{i}.pgm exists
    pc,         \* position of each worker's coordinator (the thread in optflow)
    idx,        \* the for-loop variable idx of each coordinator
    running,    \* the list running of each coordinator (threads by job index)
    jpos,       \* position of the final join loop in running
    names,      \* the pair (start_name, end_name) of each coordinator
    tpc,        \* tpc[w][i]: position of the thread worker w started for job i
    targs,      \* targs[w][i]: the (start_name, end_name) arguments of that thread
    claimed,    \* history: indices for which claim_job returned a job, per worker
    attempts,   \* history: indices passed to claim_job, in order, per worker
    claimErr,   \* history: indices at which the filesystem failed a claim_job call of the
                \* worker with an error other than "file exists"
    touched,    \* history: touched[i] = workers that wrote or deleted an artifact of job i
    runs,       \* history: runs[i] = number of run_job(i) executions started
    ev,         \* history: ev[w][i] = what the steps of run_job did
    cflow,      \* write_flow's argument flow: [h, w, d] with d[row][column] = <<dx, dy>>
    cold,       \* the 4-byte words of the file at fname before write_flow
    cfile,      \* the 4-byte words of the file at fname
    cdone       \* write_flow has returned

vars == <<MAX_OPTFLOW_JOBS, start, nframes, fast, disk, plc, fwd, bwd, rel, pc, idx, running, jpos,
          names, tpc, targs, claimed, attempts, claimErr, touched, runs, ev,
          cflow, cold, cfile, cdone>>

fsVars == <<plc, fwd, bwd, rel>>
argVars == <<MAX_OPTFLOW_JOBS, start, nframes, fast, disk>>
poolVars == <<pc, idx, running, jpos, names>>
threadVars == <<tpc, targs, touched, runs, ev>>
claimVars == <<claimed, attempts, claimErr>>
codecVars == <<cflow, cold, cfile, cdone>>

\* Python's None; a frame path is modelled by its frame number (1 or more)
None == 0

NoEv == [fwd |-> "none", bwd |-> "none", check |-> "none", removed |-> FALSE]

\* outcomes of an external process: exit 0, exit non-zero, or the executable
\* cannot be started (Popen/run raise)
ToolOut == {"ok", "nonzero", "unreachable"}
\* outcomes of write_flow: written; open() raised; a write raised after open()
WriteOut == {"ok", "noopen", "partial"}
\* outcomes of the filesystem for claim_job: no fault; creation refused
\* (permission denied); placeholder created but the marker write raised
ClaimIO == {"ok", "denied", "writefail"}

\* the state when every worker enters optflow on a clean shared directory;
\* the frames on disk are numbered 1..n without gaps
PoolInit ==
    /\ MAX_OPTFLOW_JOBS \in 1..MaxCap
    /\ start \in Starts
    /\ nframes \in 0..MaxFrames
    /\ fast \in BOOLEAN
    /\ disk \in {1..n : n \in 0..(MaxJob + 1)}
    /\ plc = {} /\ fwd = {} /\ bwd = {} /\ rel = {}
    /\ pc = [w \in Workers |-> "loop"]
    /\ idx = [w \in Workers |-> start]
    /\ running = [w \in Workers |-> <<>>]
    /\ jpos = [w \in Workers |-> 1]
    /\ names = [w \in Workers |-> <<None, None>>]
    /\ tpc = [w \in Workers |-> [i \in Jobs |-> "none"]]
    /\ targs = [w \in Workers |-> [i \in Jobs |-> <<None, None>>]]
    /\ claimed = [w \in Workers |-> {}]
    /\ attempts = [w \in Workers |-> <<>>]
    /\ claimErr = [w \in Workers |-> {}]
    /\ touched = [i \in Jobs |-> {}]
    /\ runs = [i \in Jobs |-> 0]
    /\ ev = [w \in Workers |-> [i \in Jobs |-> NoEv]]

\* no flow field is being written by hand while the pools run
Init ==
    /\ PoolInit
    /\ cflow = [h |-> 0, w |-> 0, d |-> <<>>]
    /\ cold = <<>> /\ cfile = <<>> /\ cdone = FALSE

\* ---------------------------------------------------------------------
\* claim_job (optflow.py:46-64)

\* open(placeholder, 'x') then handle.write(marker).  The result is the
\* returned pair, whether an exception left the function, and the
\* placeholders afterwards.  An existing placeholder makes open raise
\* FileExistsError, which the except clause turns into (None, None).
claim_job_overwrite(i, io) ==
    CASE io = "denied" ->
           [start_name |-> None, end_name |-> None, raised |-> TRUE, plc |-> plc]
      [] io = "writefail" ->
           [start_name |-> None, end_name |-> None, raised |-> TRUE, plc |-> plc \cup {i}]
      [] OTHER ->
           [start_name |-> i, end_name |-> i + 1, raised |-> FALSE, plc |-> plc \cup {i}]

claim_job_swallow(i, io) ==
    IF i \in plc
      THEN [start_name |-> None, end_name |-> None, raised |-> FALSE, plc |-> plc]
      ELSE CASE io = "denied" ->
                  [start_name |-> None, end_name |-> None, raised |-> FALSE, plc |-> plc]
             [] io = "writefail" ->
                  [start_name |-> None, end_name |-> None, raised |-> FALSE,
                   plc |-> plc \cup {i}]
             [] OTHER ->
                  [start_name |-> i, end_name |-> i + 1, raised |-> FALSE,
                   plc |-> plc \cup {i}]

claim_job_noexcept(i, io) ==
    IF i \in plc
      THEN [start_name |-> None, end_name |-> None, raised |-> TRUE, plc |-> plc]
      ELSE CASE io = "denied" ->
                  [start_name |-> None, end_name |-> None, raised |-> TRUE, plc |-> plc]
             [] io = "writefail" ->
                  [start_name |-> None, end_name |-> None, raised |-> TRUE,
                   plc |-> plc \cup {i}]
             [] OTHER ->
                  [start_name |-> i, end_name |-> i + 1, raised |-> FALSE,
                   plc |-> plc \cup {i}]

claim_job(i, io) ==
    IF i \in plc
      THEN [start_name |-> None, end_name |-> None, raised |-> FALSE, plc |-> plc]
      ELSE CASE io = "denied" ->
                  [start_name |-> None, end_name |-> None, raised |-> TRUE, plc |-> plc]
             [] io = "writefail" ->
                  [start_name |-> None, end_name |-> None, raised |-> TRUE,
                   plc |-> plc \cup {i}]
             [] OTHER ->
                  [start_name |-> i, end_name |-> i + 1, raised |-> FALSE,
                   plc |-> plc \cup {i}]

IsAlive_untilreaped(w, i) == tpc[w][i] \in {"fwd", "bwd", "check", "remove", "failed"}

\* thread.isAlive(): started and run_job has neither returned nor raised
IsAlive(w, i) == tpc[w][i] \in {"fwd", "bwd", "check", "remove"}

InRange_skipfirst(k) == start < k /\ k < start + nframes - 1

InRange_long(k) == start <= k /\ k < start + nframes

InRange_short(k) == start <= k /\ k < start + nframes - 2

\* range(start, start + len(frames) - 1) at optflow.py:124
InRange(k) == start <= k /\ k < start + nframes - 1

Truthy_always(x) == TRUE

\* if start_name: (optflow.py:131)
Truthy(x) == x # None

\* ---------------------------------------------------------------------
\* optflow (optflow.py:119-142), the coordinator of worker w

AtCapacity_never(w) == FALSE

AtCapacity_offbyone(w) == Len(running[w]) > MAX_OPTFLOW_JOBS

\* while len(running) >= MAX_OPTFLOW_JOBS (optflow.py:126)
AtCapacity(w) == Len(running[w]) >= MAX_OPTFLOW_JOBS

WhilePoll_dropall(w) ==
    /\ pc[w] = "loop"
    /\ InRange(idx[w])
    /\ AtCapacity(w)
    /\ running' = [running EXCEPT ![w] = <<>>]
    /\ UNCHANGED <<pc, idx, jpos, names>>
    /\ UNCHANGED <<codecVars, argVars, fsVars, claimVars, threadVars>>

\* one round of the wait loop: drop the threads that are not alive, sleep
WhilePoll(w) ==
    /\ pc[w] = "loop"
    /\ InRange(idx[w])
    /\ AtCapacity(w)
    /\ running' = [running EXCEPT ![w] = SelectSeq(running[w], LAMBDA i : IsAlive(w, i))]
    /\ UNCHANGED <<pc, idx, jpos, names>>
    /\ UNCHANGED <<codecVars, argVars, fsVars, claimVars, threadVars>>

\* range(...) is exhausted: the for loop ends
ExitLoop(w) ==
    /\ pc[w] = "loop"
    /\ ~InRange(idx[w])
    /\ pc' = [pc EXCEPT ![w] = "join"]
    /\ UNCHANGED <<idx, running, jpos, names>>
    /\ UNCHANGED <<codecVars, argVars, fsVars, claimVars, threadVars>>

ClaimJob_retry(w) ==
    /\ pc[w] = "loop"
    /\ InRange(idx[w])
    /\ ~AtCapacity(w)
    /\ \E io \in ClaimIO :
         LET i == idx[w] + 1
             r == claim_job(i, io)
             fault == i \notin plc /\ io # "ok"
         IN
           /\ plc' = r.plc
           /\ attempts' = [attempts EXCEPT ![w] = Append(@, i)]
           /\ claimErr' = [claimErr EXCEPT ![w] = IF fault THEN @ \cup {i} ELSE @]
           /\ IF r.raised
                THEN /\ pc' = [pc EXCEPT ![w] = "crashed"]
                     /\ UNCHANGED <<idx, names, claimed>>
                ELSE /\ names' = [names EXCEPT ![w] = <<r.start_name, r.end_name>>]
                     /\ claimed' = [claimed EXCEPT ![w] =
                                      IF r.start_name # None THEN @ \cup {i} ELSE @]
                     /\ IF Truthy(r.start_name)
                          THEN pc' = [pc EXCEPT ![w] = "launch"] /\ idx' = idx
                          ELSE pc' = pc /\ idx' = idx
    /\ UNCHANGED <<running, jpos>>
    /\ UNCHANGED <<codecVars, argVars, fwd, bwd, rel, threadVars>>

ClaimJob_appendalways(w) ==
    /\ pc[w] = "loop"
    /\ InRange(idx[w])
    /\ ~AtCapacity(w)
    /\ \E io \in ClaimIO :
         LET i == idx[w] + 1
             r == claim_job(i, io)
             fault == i \notin plc /\ io # "ok"
         IN
           /\ plc' = r.plc
           /\ attempts' = [attempts EXCEPT ![w] = Append(@, i)]
           /\ claimErr' = [claimErr EXCEPT ![w] = IF fault THEN @ \cup {i} ELSE @]
           /\ IF r.raised
                THEN /\ pc' = [pc EXCEPT ![w] = "crashed"]
                     /\ UNCHANGED <<idx, names, claimed, running>>
                ELSE /\ names' = [names EXCEPT ![w] = <<r.start_name, r.end_name>>]
                     /\ claimed' = [claimed EXCEPT ![w] =
                                      IF r.start_name # None THEN @ \cup {i} ELSE @]
                     /\ running' = [running EXCEPT ![w] =
                                      IF Truthy(r.start_name) THEN @ ELSE Append(@, i)]
                     /\ IF Truthy(r.start_name)
                          THEN pc' = [pc EXCEPT ![w] = "launch"] /\ idx' = idx
                          ELSE /\ pc' = pc
                               /\ idx' = [idx EXCEPT ![w] = @ + 1]
    /\ UNCHANGED jpos
    /\ UNCHANGED <<codecVars, argVars, fwd, bwd, rel, threadVars>>

\* start_name, end_name = claim_job(idx + 1, frames, dst) and the test of
\* start_name, once the wait loop's condition is false; an exception of
\* claim_job leaves optflow
ClaimJob(w) ==
    /\ pc[w] = "loop"
    /\ InRange(idx[w])
    /\ ~AtCapacity(w)
    /\ \E io \in ClaimIO :
         LET i == idx[w] + 1
             r == claim_job(i, io)
             fault == i \notin plc /\ io # "ok"
         IN
           /\ plc' = r.plc
           /\ attempts' = [attempts EXCEPT ![w] = Append(@, i)]
           /\ claimErr' = [claimErr EXCEPT ![w] = IF fault THEN @ \cup {i} ELSE @]
           /\ IF r.raised
                THEN /\ pc' = [pc EXCEPT ![w] = "crashed"]
                     /\ UNCHANGED <<idx, names, claimed>>
                ELSE /\ names' = [names EXCEPT ![w] = <<r.start_name, r.end_name>>]
                     /\ claimed' = [claimed EXCEPT ![w] =
                                      IF r.start_name # None THEN @ \cup {i} ELSE @]
                     /\ IF Truthy(r.start_name)
                          THEN pc' = [pc EXCEPT ![w] = "launch"] /\ idx' = idx
                          ELSE /\ pc' = pc
                               /\ idx' = [idx EXCEPT ![w] = @ + 1]
    /\ UNCHANGED <<running, jpos>>
    /\ UNCHANGED <<codecVars, argVars, fwd, bwd, rel, threadVars>>

\* running.append(Thread(target=run_job, args=...)); running[-1].start()
Launch(w) ==
    /\ pc[w] = "launch"
    /\ LET i == idx[w] + 1 IN
         /\ running' = [running EXCEPT ![w] = Append(@, i)]
         /\ tpc' = [tpc EXCEPT ![w][i] = "fwd"]
         /\ targs' = [targs EXCEPT ![w][i] = names[w]]
         /\ runs' = [runs EXCEPT ![i] = @ + 1]
    /\ idx' = [idx EXCEPT ![w] = @ + 1]
    /\ pc' = [pc EXCEPT ![w] = "loop"]
    /\ UNCHANGED <<jpos, names, touched, ev>>
    /\ UNCHANGED <<codecVars, argVars, fsVars, claimVars>>

\* for thread in running: thread.join() returns for a finished thread
JoinThread(w) ==
    /\ pc[w] = "join"
    /\ jpos[w] <= Len(running[w])
    /\ ~IsAlive(w, running[w][jpos[w]])
    /\ jpos' = [jpos EXCEPT ![w] = @ + 1]
    /\ UNCHANGED <<pc, idx, running, names>>
    /\ UNCHANGED <<codecVars, argVars, fsVars, claimVars, threadVars>>

\* the join loop is over: optflow returns
Return(w) ==
    /\ pc[w] = "join"
    /\ jpos[w] > Len(running[w])
    /\ pc' = [pc EXCEPT ![w] = "returned"]
    /\ UNCHANGED <<idx, running, jpos, names>>
    /\ UNCHANGED <<codecVars, argVars, fsVars, claimVars, threadVars>>

\* ---------------------------------------------------------------------
\* run_job (optflow.py:96-117), the thread worker w started for job i

FramesReadable_startonly(s, e) == s \in disk

\* cv2.imread of both frames followed by cvtColor, which raises on the None
\* that imread returns for a missing file (optflow.py:67-68)
FramesReadable(s, e) == s \in disk /\ e \in disk

\* write_flow (optflow.py:31-44) on the set of existing files of one kind:
\* open(fname, 'wb') creates or truncates the file, then the words are written
write_flow(files, i, out) ==
    [files |-> IF out \in {"ok", "partial"} THEN files \cup {i} ELSE files,
     raised |-> out # "ok"]

\* DeepMatching piped into DeepFlow2 for one direction (optflow.py:81-86 and
\* 89-94): the output file appears when the tools succeed; Popen/run raise
\* only when the executable cannot be started, the exit status is not read
deepflow_dir(files, i, out) ==
    [files |-> IF out = "ok" THEN files \cup {i} ELSE files,
     raised |-> out = "unreachable"]

\* the outcomes the tools can have for the frames s and e: they cannot
\* succeed on a missing input
FlowOuts(s, e) == IF FramesReadable(s, e) THEN ToolOut ELSE ToolOut \ {"ok"}

\* subprocess.run of the consistency check (optflow.py:111-114): the
\* reliability map appears when the tool succeeds; the exit status is not read
consistency_check(i, out) ==
    [rel |-> IF out = "ok" THEN rel \cup {i} ELSE rel,
     raised |-> out = "unreachable"]

\* the consistency check cannot succeed on a missing input
CheckOuts(i, e) ==
    IF i \in bwd /\ i \in fwd /\ e \in disk THEN ToolOut ELSE ToolOut \ {"ok"}

Touch(w, i, changed) ==
    touched' = [touched EXCEPT ![i] = IF changed THEN @ \cup {w} ELSE @]

\* first half of the flow backend: farneback reads both frames and writes
\* the forward field; deepflow runs the forward tools
FlowForward(w, i) ==
    /\ tpc[w][i] = "fwd"
    /\ LET s == targs[w][i][1]
           e == targs[w][i][2]
       IN IF fast
            THEN IF ~FramesReadable(s, e)
                   THEN /\ tpc' = [tpc EXCEPT ![w][i] = "failed"]
                        /\ ev' = [ev EXCEPT ![w][i].fwd = "fail"]
                        /\ UNCHANGED <<fwd, touched>>
                   ELSE \E out \in WriteOut :
                          LET r == write_flow(fwd, i, out) IN
                            /\ fwd' = r.files
                            /\ Touch(w, i, r.files # fwd)
                            /\ tpc' = [tpc EXCEPT ![w][i] =
                                         IF r.raised THEN "failed" ELSE "bwd"]
                            /\ ev' = [ev EXCEPT ![w][i].fwd =
                                        IF r.raised THEN "fail" ELSE "ok"]
            ELSE \E out \in FlowOuts(s, e) :
                   LET r == deepflow_dir(fwd, i, out) IN
                     /\ fwd' = r.files
                     /\ Touch(w, i, r.files # fwd)
                     /\ tpc' = [tpc EXCEPT ![w][i] =
                                  IF r.raised THEN "failed" ELSE "bwd"]
                     /\ ev' = [ev EXCEPT ![w][i].fwd =
                                 IF out = "ok" THEN "ok" ELSE "fail"]
    /\ UNCHANGED <<targs, runs, plc, bwd, rel>>
    /\ UNCHANGED <<codecVars, argVars, poolVars, claimVars>>

\* second half of the flow backend: the backward field
FlowBackward(w, i) ==
    /\ tpc[w][i] = "bwd"
    /\ LET s == targs[w][i][1]
           e == targs[w][i][2]
       IN IF fast
            THEN \E out \in WriteOut :
                   LET r == write_flow(bwd, i, out) IN
                     /\ bwd' = r.files
                     /\ Touch(w, i, r.files # bwd)
                     /\ tpc' = [tpc EXCEPT ![w][i] =
                                  IF r.raised THEN "failed" ELSE "check"]
                     /\ ev' = [ev EXCEPT ![w][i].bwd =
                                 IF r.raised THEN "fail" ELSE "ok"]
            ELSE \E out \in FlowOuts(e, s) :
                   LET r == deepflow_dir(bwd, i, out) IN
                     /\ bwd' = r.files
                     /\ Touch(w, i, r.files # bwd)
                     /\ tpc' = [tpc EXCEPT ![w][i] =
                                  IF r.raised THEN "failed" ELSE "check"]
                     /\ ev' = [ev EXCEPT ![w][i].bwd =
                                 IF out = "ok" THEN "ok" ELSE "fail"]
    /\ UNCHANGED <<targs, runs, plc, fwd, rel>>
    /\ UNCHANGED <<codecVars, argVars, poolVars, claimVars>>

\* subprocess.run([CONSISTENCY_CHECK, backward, forward, reliable, end_name])
ConsistencyCheck(w, i) ==
    /\ tpc[w][i] = "check"
    /\ \E out \in CheckOuts(i, targs[w][i][2]) :
         LET r == consistency_check(i, out) IN
           /\ rel' = r.rel
           /\ Touch(w, i, r.rel # rel)
           /\ tpc' = [tpc EXCEPT ![w][i] = IF r.raised THEN "failed" ELSE "remove"]
           /\ ev' = [ev EXCEPT ![w][i].check = out]
    /\ UNCHANGED <<targs, runs, plc, fwd, bwd>>
    /\ UNCHANGED <<codecVars, argVars, poolVars, claimVars>>

RemoveForward_keep(w, i) ==
    /\ tpc[w][i] = "remove"
    /\ tpc' = [tpc EXCEPT ![w][i] = "done"]
    /\ ev' = [ev EXCEPT ![w][i].removed = TRUE]
    /\ UNCHANGED <<targs, runs, touched, plc, fwd, bwd, rel>>
    /\ UNCHANGED <<codecVars, argVars, poolVars, claimVars>>

RemoveForward_unclaim(w, i) ==
    /\ tpc[w][i] = "remove"
    /\ IF i \in fwd
         THEN /\ fwd' = fwd \ {i}
              /\ Touch(w, i, TRUE)
              /\ tpc' = [tpc EXCEPT ![w][i] = "done"]
              /\ ev' = [ev EXCEPT ![w][i].removed = TRUE]
              /\ UNCHANGED plc
         ELSE /\ tpc' = [tpc EXCEPT ![w][i] = "failed"]
              /\ plc' = plc \ {i}
              /\ UNCHANGED <<fwd, touched, ev>>
    /\ UNCHANGED <<targs, runs, bwd, rel>>
    /\ UNCHANGED <<codecVars, argVars, poolVars, claimVars>>

RemoveForward_propagate(w, i) ==
    /\ tpc[w][i] = "remove"
    /\ IF i \in fwd
         THEN /\ fwd' = fwd \ {i}
              /\ Touch(w, i, TRUE)
              /\ tpc' = [tpc EXCEPT ![w][i] = "done"]
              /\ ev' = [ev EXCEPT ![w][i].removed = TRUE]
              /\ UNCHANGED pc
         ELSE /\ tpc' = [tpc EXCEPT ![w][i] = "failed"]
              /\ pc' = [pc EXCEPT ![w] = "crashed"]
              /\ UNCHANGED <<fwd, touched, ev>>
    /\ UNCHANGED <<targs, runs, plc, bwd, rel>>
    /\ UNCHANGED <<codecVars, argVars, idx, running, jpos, names, claimVars>>

\* os.remove(forward_name), which raises when the file does not exist;
\* after it run_job returns
RemoveForward(w, i) ==
    /\ tpc[w][i] = "remove"
    /\ IF i \in fwd
         THEN /\ fwd' = fwd \ {i}
              /\ Touch(w, i, TRUE)
              /\ tpc' = [tpc EXCEPT ![w][i] = "done"]
              /\ ev' = [ev EXCEPT ![w][i].removed = TRUE]
         ELSE /\ tpc' = [tpc EXCEPT ![w][i] = "failed"]
              /\ UNCHANGED <<fwd, touched, ev>>
    /\ UNCHANGED <<targs, runs, plc, bwd, rel>>
    /\ UNCHANGED <<codecVars, argVars, poolVars, claimVars>>

\* ---------------------------------------------------------------------
\* the environment ends worker w's process while it is at work: the
\* coordinator and every thread of it stop where they are
Kill(w) ==
    /\ pc[w] \notin {"returned", "dead"}
    /\ pc[w] = "crashed" => \E i \in Jobs : IsAlive(w, i)
    /\ pc' = [pc EXCEPT ![w] = "dead"]
    /\ tpc' = [tpc EXCEPT ![w] = [i \in Jobs |-> IF IsAlive(w, i) THEN "killed" ELSE @[i]]]
    /\ UNCHANGED <<idx, running, jpos, names, targs, touched, runs, ev>>
    /\ UNCHANGED <<codecVars, argVars, fsVars, claimVars>>

\* ---------------------------------------------------------------------
\* write_flow (optflow.py:31-44), the content of the file it leaves

\* the 4-byte word of np.float32(202021.25)
MagicBits == 1212500304

\* the component values of the fields considered: 0.0 and 1.0
Vals == {0, 1}

\* the IEEE-754 single-precision word of a component value (astype(np.float32))
F32Bits(x) == IF x = 0 THEN 0 ELSE 1065353216

\* np.array(n, dtype=np.uint32) of an array dimension: a dimension is not
\* negative and is far below 2^32, so the word is the number itself
U32(n) == n

\* flow.astype(np.float32).tofile(f): the array in C order, the last axis
\* (dx, dy) fastest, then the columns of a row, then the rows
RECURSIVE RowWords(_, _)
RowWords(row, n) ==
    IF n = 0 THEN <<>>
    ELSE RowWords(row, n - 1) \o <<F32Bits(row[n][1]), F32Bits(row[n][2])>>

RECURSIVE DataWords(_, _, _)
DataWords(d, h, w) ==
    IF h = 0 THEN <<>> ELSE DataWords(d, h - 1, w) \o RowWords(d[h], w)

flo_words_heightfirst(flow) ==
    <<MagicBits, U32(flow.h), U32(flow.w)>> \o DataWords(flow.d, flow.h, flow.w)

\* the words written at optflow.py:40-44: magic, width, height, data, with
\* height, width = flow.shape[:2]
flo_words(flow) ==
    <<MagicBits, U32(flow.w), U32(flow.h)>> \o DataWords(flow.d, flow.h, flow.w)

\* open(fname, 'wb') truncates the file
open_wb(old) == <<>>

Fields ==
    UNION {[h : {hh}, w : {ww}, d : [1..hh -> [1..ww -> [1..2 -> Vals]]]] :
             hh \in 0..MaxDim, ww \in 0..MaxDim}

OldFiles == {[k \in 1..n |-> MagicBits + k] : n \in 0..MaxOldLen}

\* a call write_flow(fname, flow) on a path that holds any file or none
CodecInit ==
    /\ PoolInit
    /\ MAX_OPTFLOW_JOBS = 1 /\ start = 0 /\ nframes = 0 /\ fast /\ disk = {}
    /\ cflow \in Fields
    /\ cold \in OldFiles
    /\ cfile = cold
    /\ cdone = FALSE

WriteFlow ==
    /\ ~cdone
    /\ cfile' = open_wb(cfile) \o flo_words(cflow)
    /\ cdone' = TRUE
    /\ UNCHANGED <<cflow, cold>>
    /\ UNCHANGED <<argVars, fsVars, poolVars, claimVars, threadVars>>

CodecNext == WriteFlow

CodecSpec == CodecInit /\ [][CodecNext]_vars

Next ==
    \/ \E w \in Workers : WhilePoll(w)
    \/ \E w \in Workers : ExitLoop(w)
    \/ \E w \in Workers : ClaimJob(w)
    \/ \E w \in Workers : Launch(w)
    \/ \E w \in Workers : JoinThread(w)
    \/ \E w \in Workers : Return(w)
    \/ \E w \in Workers, i \in Jobs : FlowForward(w, i)
    \/ \E w \in Workers, i \in Jobs : FlowBackward(w, i)
    \/ \E w \in Workers, i \in Jobs : ConsistencyCheck(w, i)
    \/ \E w \in Workers, i \in Jobs : RemoveForward(w, i)
    \/ \E w \in Workers : Kill(w)

Spec == Init /\ [][Next]_vars

\* the steps of worker w's coordinator, and of the thread it started for job i
CoordNext(w) ==
    WhilePoll(w) \/ ExitLoop(w) \/ ClaimJob(w) \/ Launch(w) \/ JoinThread(w) \/ Return(w)
ThreadNext(w, i) ==
    FlowForward(w, i) \/ FlowBackward(w, i) \/ ConsistencyCheck(w, i) \/ RemoveForward(w, i)

\* the operating system schedules every coordinator and every thread of a
\* living process, and every external process called ends
Fairness ==
    /\ \A w \in Workers : WF_vars(CoordNext(w))
    /\ \A w \in Workers : \A i \in Jobs : WF_vars(ThreadNext(w, i))

\* the runs main starts: optflow(0, frames, remote, args.fast) (optflow.py:169)
MainInit == Init /\ start = 0

FairSpec == MainInit /\ [][Next]_vars /\ Fairness

TypeOK ==
    /\ plc \subseteq Jobs /\ fwd \subseteq Jobs /\ bwd \subseteq Jobs /\ rel \subseteq Jobs
    /\ \A w \in Workers : pc[w] \in {"loop", "launch", "join",
                                     "returned", "crashed", "dead"}

\* ---------------------------------------------------------------------
\* helpers of the properties

Attempted(w, i) == \E k \in 1..Len(attempts[w]) : attempts[w][k] = i
Claimants(i) == {w \in Workers : i \in claimed[w]}
Finished(w, i) == tpc[w][i] \in {"done", "failed"}
Launched(w, i) == tpc[w][i] # "none"
InRunning(w, i) == \E k \in 1..Len(running[w]) : running[w][k] = i
\* worker w made a claim attempt in this step, for index i
AttemptStep(w, i) == attempts'[w] = Append(attempts[w], i)

\* C1: for every job index at most one claim_job call returns a job, over
\* all workers and interleavings; and once every worker has made its attempt
\* for an index and none of these attempts raised an I/O error, exactly one
\* of them got the job and all the others got (None, None).
C1_AtMostOneClaim ==
    \A i \in Jobs :
      /\ Cardinality(Claimants(i)) <= 1
      /\ (\A w \in Workers : Attempted(w, i) /\ i \notin claimErr[w])
            => /\ Cardinality(Claimants(i)) = 1
               /\ Cardinality({w \in Workers : Attempted(w, i) /\ i \notin claimed[w]})
                    = NumWorkers - 1

\* every worker has attempted job 1 without I/O error; one has it, another has not
C1_Witness ==
    /\ NumWorkers >= 2
    /\ \A w \in Workers : Attempted(w, 1) /\ claimErr[w] = {}
    /\ \E w, v \in Workers : w # v /\ 1 \in claimed[w] /\ 1 \notin claimed[v]

\* C2: run_job is started at most once per job index, only by a worker whose
\* claim of that index returned the job (so only after that claim), and only
\* that worker writes or deletes the job's forward, backward and reliability
\* files.
C2_RunOnlyByClaimant ==
    \A i \in Jobs :
      /\ runs[i] <= 1
      /\ \A w \in Workers : Launched(w, i) => i \in claimed[w]
      /\ touched[i] \subseteq Claimants(i)
      /\ Cardinality({w \in Workers : Launched(w, i)}) <= 1

\* a job has been run to its end by one worker, which wrote and deleted its
\* files, while another worker asked for the same index and started nothing
C2_Witness ==
    \E i \in Jobs : \E w, v \in Workers :
      /\ w # v
      /\ tpc[w][i] = "done" /\ touched[i] = {w} /\ runs[i] = 1
      /\ Attempted(v, i) /\ ~Launched(v, i)

\* C3: the threads a pool started that are still alive are never more than
\* MAX_OPTFLOW_JOBS.
C3_ActiveAtMostCap ==
    \A w \in Workers :
      Cardinality({i \in Jobs : IsAlive(w, i)}) <= MAX_OPTFLOW_JOBS

\* a coordinator with work left is held at capacity by MAX_OPTFLOW_JOBS live threads
C3_Witness ==
    \E w \in Workers :
      /\ pc[w] = "loop" /\ InRange(idx[w]) /\ AtCapacity(w)
      /\ Cardinality({i \in Jobs : IsAlive(w, i)}) = MAX_OPTFLOW_JOBS

\* C4: a claim attempt for an index whose placeholder exists returns
\* (None, None): it does not raise, it does not return a job, and it leaves
\* all files of the shared directory as they were.
C4_ClaimedReturnsNoJob ==
    [][\A w \in Workers : \A i \in Jobs :
         (AttemptStep(w, i) /\ i \in plc)
            => /\ plc' = plc /\ fwd' = fwd /\ bwd' = bwd /\ rel' = rel
               /\ claimed' = claimed
               /\ claimErr' = claimErr
               /\ pc'[w] = "loop"
               /\ names'[w] = <<None, None>>]_vars

\* an index with a placeholder has been asked for by a worker that did not get
\* it, twice over when there are workers enough, and that worker went on
C4_Witness ==
    \E i \in Jobs : \E w \in Workers :
      /\ i \in plc /\ Attempted(w, i) /\ i \notin claimed[w]
      /\ claimErr[w] = {} /\ pc[w] # "crashed"
      /\ \E v \in Workers : i \in claimed[v]

\* a job whose claimant's process was ended before run_job returned
Abandoned(w, i) ==
    pc[w] = "dead" /\ i \in claimed[w] /\ tpc[w][i] \in {"none", "killed"}

\* C5: a placeholder that exists exists in every later state, whatever the
\* pipeline's outcome and also when the claiming worker's process is ended
\* mid-job; a job abandoned that way stays abandoned: no other worker ever
\* gets it from claim_job or starts run_job for it, and it is never completed.
C5_PlaceholderPermanent ==
    [][\A i \in Jobs :
         /\ i \in plc => i \in plc'
         /\ \A w \in Workers :
              /\ Abandoned(w, i) => Abandoned(w, i)'
              /\ Abandoned(w, i)' =>
                   /\ i \in plc'
                   /\ \A v \in Workers \ {w} : i \notin claimed'[v] /\ tpc'[v][i] = "none"]_vars

\* a worker was ended mid-job, and another worker has since asked for that
\* index, was refused, and returned; a pipeline of the directory has failed
C5_Witness ==
    \E i \in Jobs : \E w, v \in Workers :
      /\ w # v
      /\ Abandoned(w, i) /\ tpc[w][i] = "killed"
      /\ Attempted(v, i) /\ pc[v] = "returned"
      /\ \E j \in Jobs : tpc[v][j] = "failed" /\ j \in plc

\* run_job for job i returned after every step of it had succeeded
Succeeded(w, i) ==
    /\ tpc[w][i] = "done"
    /\ ev[w][i].fwd = "ok" /\ ev[w][i].bwd = "ok" /\ ev[w][i].check = "ok"

\* C6: when a run of the pipeline for job i has completed with all its steps
\* successful, the forward field file of i does not exist and the backward
\* field file and the reliability map of i exist.
C6_SuccessArtifacts ==
    \A w \in Workers : \A i \in Jobs :
      Succeeded(w, i) => i \notin fwd /\ i \in bwd /\ i \in rel

\* a pipeline has completed successfully and removed its forward field
C6_Witness ==
    \E w \in Workers : \E i \in Jobs : Succeeded(w, i) /\ ev[w][i].removed

\* no claim raised, no tool failed, no write failed
NoFault ==
    \A w \in Workers :
      /\ claimErr[w] = {}
      /\ \A i \in Jobs :
           /\ ev[w][i].fwd # "fail" /\ ev[w][i].bwd # "fail"
           /\ ev[w][i].check \in {"none", "ok"}
           /\ tpc[w][i] # "failed"

\* the end-to-end scenario: frames 1..3 on disk, optflow(0, <3 frames>), cap 2
Scenario ==
    /\ MAX_OPTFLOW_JOBS = 2 /\ start = 0 /\ nframes = 3 /\ disk = 1..3

\* C7: in the scenario of 3 frames, MAX_OPTFLOW_JOBS = 2 and a directory that
\* starts clean, when every pool has returned and nothing failed on the way,
\* the directory holds exactly the backward fields and reliability maps of
\* jobs 1 and 2, no forward field, and the placeholders of jobs 1 and 2.
C7_EndToEnd ==
    (Scenario /\ NoFault /\ \A w \in Workers : pc[w] = "returned")
       => /\ bwd = {1, 2} /\ Cardinality(bwd) = 2
          /\ rel = {1, 2} /\ Cardinality(rel) = 2
          /\ fwd = {}
          /\ plc = {1, 2} /\ Cardinality(plc) = 2

\* the scenario has run to its end without a fault, the two jobs having been
\* run by one pool
C7_Witness ==
    /\ Scenario /\ NoFault /\ \A w \in Workers : pc[w] = "returned"
    /\ \E w \in Workers : claimed[w] = {1, 2}

\* C8: when optflow has returned, none of the threads it started is alive,
\* those dropped from running by the wait loop included.
C8_ReturnedMeansJoined ==
    \A w \in Workers :
      pc[w] = "returned" => \A i \in Jobs : Launched(w, i) => Finished(w, i)

\* a pool has returned that had dropped a thread from running while waiting
C8_Witness ==
    \E w \in Workers :
      /\ pc[w] = "returned"
      /\ \E i \in Jobs : Launched(w, i) /\ ~InRunning(w, i)

\* the job indices of optflow's range, in the order of the for loop
RangeSeq == [k \in 1..(IF nframes >= 1 THEN nframes - 1 ELSE 0) |-> start + k]

\* C9: a step in which a pipeline fails changes nothing of the coordinator
\* that started it, nothing of any other thread and no file of any other job;
\* a coordinator leaves optflow by an exception only when one of its own
\* claim_job calls raised; and a pool that has returned has made a claim
\* attempt for every index of its range, every thread it started having come
\* to its own end.
C9_FailureIsolated ==
    [][/\ \A w \in Workers : \A i \in Jobs :
            (tpc[w][i] # "failed" /\ tpc'[w][i] = "failed")
               => /\ pc' = pc /\ idx' = idx /\ running' = running /\ jpos' = jpos
                  /\ \A v \in Workers : \A j \in Jobs :
                       (v # w \/ j # i) => tpc'[v][j] = tpc[v][j]
                  /\ \A j \in Jobs \ {i} :
                       /\ (j \in fwd') = (j \in fwd)
                       /\ (j \in bwd') = (j \in bwd)
                       /\ (j \in rel') = (j \in rel)
       /\ \A w \in Workers :
            /\ pc'[w] = "crashed" => claimErr'[w] # {}
            /\ pc'[w] = "returned"
                 => /\ attempts'[w] = RangeSeq
                    /\ \A i \in Jobs : Launched(w, i)' => Finished(w, i)']_vars

\* a pool has returned although the pipeline of its first job failed, after
\* claiming and completing a later job
C9_Witness ==
    \E w \in Workers : \E i, j \in Jobs :
      /\ i < j
      /\ pc[w] = "returned"
      /\ tpc[w][i] = "failed" /\ tpc[w][j] = "done"

\* C10: the consistency check is invoked only after the flow backend
\* succeeded for both directions, and when the consistency check exits
\* non-zero the forward field file is not deleted and run_job does not
\* complete.
C10_StepsDependOnSuccess ==
    \A w \in Workers : \A i \in Jobs :
      /\ ev[w][i].check # "none" => ev[w][i].fwd = "ok" /\ ev[w][i].bwd = "ok"
      /\ ev[w][i].check = "nonzero" => ~ev[w][i].removed /\ tpc[w][i] # "done"

\* C11: for a claimed job whose end frame is missing, with either backend,
\* run_job never returns normally: once its thread has ended it has failed;
\* the job's backward field and reliability map never exist, and its
\* placeholder exists.
C11_MissingEndFrame ==
    \A w \in Workers : \A i \in Jobs :
      (Launched(w, i) /\ targs[w][i][2] \notin disk)
         => /\ tpc[w][i] # "done"
            /\ (~IsAlive(w, i) /\ tpc[w][i] # "killed") => tpc[w][i] = "failed"
            /\ i \notin bwd /\ i \notin rel
            /\ i \in plc

\* a job with its start frame on disk and its end frame missing has failed
C11_Witness ==
    \E w \in Workers : \E i \in Jobs :
      /\ targs[w][i][1] \in disk /\ targs[w][i][2] \notin disk
      /\ tpc[w][i] = "failed" /\ i \in plc

\* C12: a claim attempt that the filesystem fails with an error other than
\* "file exists" is not turned into (None, None) and gives no job: the
\* exception leaves optflow, the worker starts no thread for that index, and
\* it makes no claim attempt afterwards.
C12_ClaimIOFailureIsFatal ==
    [][\A w \in Workers :
         /\ \A i \in Jobs :
              (AttemptStep(w, i) /\ i \in claimErr'[w])
                 => /\ pc'[w] = "crashed"
                    /\ i \notin claimed'[w]
                    /\ names'[w] = names[w]
         /\ claimErr[w] # {}
              => /\ pc'[w] \in {"crashed", "dead"}
                 /\ attempts'[w] = attempts[w]
                 /\ claimed'[w] = claimed[w]
                 /\ \A i \in claimErr[w] : ~Launched(w, i)']_vars

\* a worker whose claim attempt failed on the filesystem has stopped
\* claiming, with a later index of its range never attempted by it, while
\* another worker claimed that later index and returned
C12_Witness ==
    \E w, v \in Workers : \E i \in Jobs :
      /\ i \in claimErr[w] /\ pc[w] = "crashed"
      /\ InRange(i) /\ ~Attempted(w, i + 1)
      /\ v # w /\ (i + 1) \in claimed[v] /\ pc[v] = "returned"

\* C13: with a cap of at least 1, when the operating system keeps scheduling
\* the coordinators and threads and every pipeline step ends, the pool of
\* every worker returns, unless one of its own claim attempts failed on the
\* filesystem or its own process was ended; in particular a coordinator held
\* at capacity goes on, and no pool waits for another worker, whatever
\* happens to that one.
C13_PoolsReturn ==
    \A w \in Workers :
      <>(pc[w] = "returned" \/ pc[w] = "dead" \/ claimErr[w] # {})

\* a pool has returned after having been held at capacity (it dropped a
\* thread from running), while the other worker's process had been ended
C13_Witness ==
    \E w, v \in Workers :
      /\ w # v /\ pc[v] = "dead" /\ pc[w] = "returned"
      /\ MAX_OPTFLOW_JOBS >= 1
      /\ \E i \in Jobs : Launched(w, i) /\ ~InRunning(w, i)

\* C14: after write_flow of a field of width w and height h the file holds
\* exactly 3 + 2*w*h words: the magic word, then w, then h, then for every
\* pixel in row-major order its dx followed by its dy; whatever file was at
\* the path before.
C14_FloLayout ==
    cdone =>
      LET w == cflow.w
          h == cflow.h
      IN /\ Len(cfile) = 3 + 2 * w * h
         /\ cfile[1] = MagicBits /\ cfile[2] = w /\ cfile[3] = h
         /\ \A r \in 1..h : \A c \in 1..w :
              LET base == 3 + 2 * ((r - 1) * w + (c - 1)) IN
                /\ cfile[base + 1] = F32Bits(cflow.d[r][c][1])
                /\ cfile[base + 2] = F32Bits(cflow.d[r][c][2])

\* a field wider than high, with dx and dy that differ, has been written over
\* a file that was longer than the new content
C14_Witness ==
    /\ cdone /\ cflow.w = 2 /\ cflow.h = 1
    /\ cflow.d[1][1] = <<0, 1>> /\ cflow.d[1][2] = <<1, 0>>
    /\ Len(cold) > Len(cfile)

\* C15: the claim attempts of one run of optflow are made in strictly
\* increasing index order, so no index is attempted twice, an index that got
\* (None, None) included; each step of the coordinator makes at most one.
C15_AttemptsIncrease ==
    [][\A w \in Workers :
         /\ \A k \in 1..(Len(attempts'[w]) - 1) : attempts'[w][k] < attempts'[w][k + 1]
         /\ Len(attempts'[w]) <= Len(attempts[w]) + 1
         /\ \A k \in 1..Len(attempts[w]) : attempts'[w][k] = attempts[w][k]]_vars

\* a worker was refused its first index and has attempted the next one
C15_Witness ==
    \E w \in Workers :
      /\ Len(attempts[w]) = 2
      /\ attempts[w][1] \notin claimed[w] /\ attempts[w][1] \notin claimErr[w]
      /\ attempts[w][1] < attempts[w][2]

\* C16: when the exclusive creation of the placeholder succeeds, claim_job
\* returns the paths of frames idx and idx + 1, whatever becomes of the write
\* of the marker text.
C16_MarkerNotLoadBearing ==
    [][\A w \in Workers : \A i \in Jobs :
         (AttemptStep(w, i) /\ i \notin plc /\ i \in plc')
            => /\ i \in claimed'[w]
               /\ names'[w] = <<i, i + 1>>
               /\ pc'[w] = "launch"]_vars

\* the coordinator of w is back at the top of the loop after claim_job gave
\* it (None, None)
AfterNoJob(w) ==
    /\ pc[w] = "loop"
    /\ Len(attempts[w]) > 0
    /\ attempts[w][Len(attempts[w])] \notin claimed[w]
    /\ attempts[w][Len(attempts[w])] = idx[w]

\* worker w's coordinator took a step
CoordStep(w) ==
    \/ pc'[w] # pc[w] \/ idx'[w] # idx[w] \/ running'[w] # running[w]
    \/ jpos'[w] # jpos[w] \/ attempts'[w] # attempts[w]

\* C17: after claim_job returned (None, None) for an index that is not the
\* last of the range, the coordinator is not at capacity, and the next step
\* of the coordinator is the claim attempt for the next index.
C17_NoJobThenNextClaim ==
    [][\A w \in Workers :
         /\ (AfterNoJob(w)' /\ InRange(idx[w])') => ~AtCapacity(w)'
         /\ (AfterNoJob(w) /\ InRange(idx[w]) /\ CoordStep(w) /\ pc'[w] # "dead")
               => AttemptStep(w, idx[w] + 1)]_vars

\* a worker was refused an index that another worker's live thread holds,
\* and has gone straight on to claim the next index
C17_Witness ==
    \E w, v \in Workers : \E i \in Jobs :
      /\ w # v /\ IsAlive(v, i)
      /\ attempts[w] = <<i, i + 1>>
      /\ i \notin claimed[w] /\ (i + 1) \in claimed[w]

\* the job indices of optflow's range
RangeSet == {RangeSeq[k] : k \in 1..Len(RangeSeq)}
Dispatched(w) == {i \in Jobs : Launched(w, i)}

\* C18: when a pool has returned, every job index of its range has a
\* placeholder; when all pools over the range have returned, the sets of jobs
\* they started are pairwise disjoint and together are the whole range.
C18_RangeExhausted ==
    /\ \A w \in Workers : pc[w] = "returned" => RangeSet \subseteq plc
    /\ (\A w \in Workers : pc[w] = "returned")
          => /\ \A w, v \in Workers : w # v => Dispatched(w) \cap Dispatched(v) = {}
             /\ UNION {Dispatched(w) : w \in Workers} = RangeSet

\* all pools have returned from a range of two jobs, of which two workers
\* started one each
C18_Witness ==
    /\ \A w \in Workers : pc[w] = "returned"
    /\ Cardinality(RangeSet) = 2
    /\ \E w, v \in Workers : w # v /\ Dispatched(w) # {} /\ Dispatched(v) # {}

\* C19: a claim attempt is made only while fewer than MAX_OPTFLOW_JOBS
\* threads are recorded in running, and a worker that holds a claimed job it
\* has not started yet is about to start it, with room in running: a claimed
\* job never waits for capacity in a living worker.
C19_ClaimOnlyBelowCap ==
    [][\A w \in Workers :
         /\ \A i \in Jobs : AttemptStep(w, i) => Len(running[w]) < MAX_OPTFLOW_JOBS
         /\ \A i \in Jobs :
              (i \in claimed'[w] /\ ~Launched(w, i)' /\ pc'[w] # "dead")
                 => /\ pc'[w] = "launch" /\ idx'[w] + 1 = i
                    /\ Len(running'[w]) < MAX_OPTFLOW_JOBS]_vars

\* a worker held at capacity has resumed after one of its threads ended and
\* holds a freshly claimed job, about to start it
C19_Witness ==
    \E w \in Workers : \E i \in Jobs :
      /\ pc[w] = "launch" /\ i \in claimed[w] /\ ~Launched(w, i)
      /\ \E j \in Jobs : Launched(w, j) /\ ~InRunning(w, j)

\* C20: the indices optflow passes to claim_job are start+1, start+2, ... in
\* this order, at most len(frames)-1 of them and exactly that many once it
\* has returned (none when len(frames) <= 1); so the end frame idx+1 of an
\* attempted job is at most start+len(frames).
C20_AttemptRange ==
    \A w \in Workers :
      /\ Len(attempts[w]) <= (IF nframes >= 1 THEN nframes - 1 ELSE 0)
      /\ \A k \in 1..Len(attempts[w]) :
           /\ attempts[w][k] = start + k
           /\ attempts[w][k] + 1 <= start + nframes
      /\ pc[w] = "returned"
           => /\ Len(attempts[w]) = (IF nframes >= 1 THEN nframes - 1 ELSE 0)
              /\ \A i \in (start + 1)..(start + nframes - 1) : Attempted(w, i)

\* a pool called with start = 1 and three frames has returned after
\* attempting jobs 2 and 3, in this order
C20_Witness ==
    \E w \in Workers :
      /\ pc[w] = "returned" /\ start = 1 /\ nframes = 3
      /\ attempts[w] = <<2, 3>>

====
